---- MODULE Spec2Model ----
(***************************************************************************)
(* HelmPack (helmpack.py): chart analysis, bundle packaging and bundle     *)
(* import with image relocation.                                           *)
(*                                                                         *)
(* Python strings are sequences of one-character strings, so that split,   *)
(* replace and strip are computed the way str computes them.  The external *)
(* collaborators (helm, the Docker daemon, the file system) are inputs:    *)
(* what a chart contains, which calls raise.  helm itself is installed     *)
(* (its calls fail with CalledProcessError, never FileNotFoundError).      *)
(***************************************************************************)
EXTENDS Integers, Sequences, FiniteSets, TLC

VARIABLES
    cmd,        \* which CLI command this run executes
    fnIn,       \* arguments of the helper call under test (cmd = "fn")
    fnOut,      \* its return value
    fnPc,
    chartSrc,   \* the chart sources on disk: node -> what the collaborators see
    anaPc,      \* position in "with HelmChartAnalyzer() as analyzer: ..."
    temp_dirs,  \* HelmChartAnalyzer.temp_dirs
    dirs,       \* directories that exist on disk (analysis side)
    anaResult,  \* what analyze_chart(root) returned or raised
    bunIn,      \* arguments of create_bundle and the Docker daemon's answers
    bunPc,
    bunIdx,     \* loop index of _pull_and_save_images
    bunImages,  \* chart_info.images, the in-memory ImageInfo objects
    bundle,     \* the bundle working directory: manifest, chart copy, images/
    bunLog,     \* Docker calls made by the packager, in order
    bunTmp,     \* the TemporaryDirectory of create_bundle
    readBack,   \* metadata['images'] as import_bundle loads it from the bundle
    impIn,      \* arguments of import_bundle, the archive's content, harbor_url
    impPc,
    impIdx,     \* loop index of _import_images
    impTmp,     \* the TemporaryDirectory of import_bundle
    files,      \* the unpacked chart directory: file -> content
    image_mapping, \* the dict built by _import_chart, as an ordered list of pairs
    pushed,     \* references the target registry holds after a successful push
    loaded,     \* images the local Docker daemon holds because this import loaded them
    impLog,     \* Docker and helm calls made by the importer, in order
    relocWritten, \* target references that relocation wrote into chart files
    chartPkg    \* the chart content helm packaged and pushed, or "none"

fnVars == <<fnIn, fnOut, fnPc>>
anaVars == <<chartSrc, anaPc, temp_dirs, dirs, anaResult>>
bunVars == <<bunIn, bunPc, bunIdx, bunImages, bundle, bunLog, bunTmp, readBack>>
impVars == <<impIn, impPc, impIdx, impTmp, files, image_mapping, pushed, loaded,
             impLog, relocWritten, chartPkg>>
vars == <<cmd, fnVars, anaVars, bunVars, impVars>>

(***************************************************************************)
(* Python str operations.                                                  *)
(***************************************************************************)
Last(s) == s[Len(s)]

Front(s) == SubSeq(s, 1, Len(s) - 1)

RECURSIVE Concat(_)
Concat(ss) == IF ss = <<>> THEN <<>> ELSE Head(ss) \o Concat(Tail(ss))

\* s[i:].startswith(pat), i counted from 1
StartsWithAt(s, i, pat) ==
    /\ i + Len(pat) - 1 <= Len(s)
    /\ SubSeq(s, i, i + Len(pat) - 1) = pat

\* pat in s
Contains(s, pat) == \E i \in 1..(Len(s) - Len(pat) + 1) : StartsWithAt(s, i, pat)

RECURSIVE SplitFrom(_, _, _, _)
SplitFrom(s, sep, i, cur) ==
    IF i > Len(s) THEN <<cur>>
    ELSE IF StartsWithAt(s, i, sep)
         THEN <<cur>> \o SplitFrom(s, sep, i + Len(sep), <<>>)
         ELSE SplitFrom(s, sep, i + 1, Append(cur, s[i]))

\* s.split(sep), sep not empty
Split(s, sep) == SplitFrom(s, sep, 1, <<>>)

RECURSIVE Join(_, _)
Join(parts, sep) ==
    IF parts = <<>> THEN <<>>
    ELSE IF Len(parts) = 1 THEN parts[1]
    ELSE parts[1] \o sep \o Join(Tail(parts), sep)

\* s.rsplit(sep, 1) for a one-character sep that occurs in s
RSplit1(s, sep) ==
    LET k == CHOOSE i \in 1..Len(s) :
                 /\ s[i] = sep[1]
                 /\ \A j \in (i + 1)..Len(s) : s[j] # sep[1]
    IN  <<SubSeq(s, 1, k - 1), SubSeq(s, k + 1, Len(s))>>

RECURSIVE LStrip(_, _)
LStrip(s, chars) ==
    IF s # <<>> /\ Head(s) \in chars THEN LStrip(Tail(s), chars) ELSE s

RECURSIVE RStrip(_, _)
RStrip(s, chars) ==
    IF s # <<>> /\ Last(s) \in chars THEN RStrip(Front(s), chars) ELSE s

Strip(s, chars) == RStrip(LStrip(s, chars), chars)

RECURSIVE ReplaceFrom(_, _, _, _)
ReplaceFrom(s, old, new, i) ==
    IF i > Len(s) THEN <<>>
    ELSE IF StartsWithAt(s, i, old)
         THEN new \o ReplaceFrom(s, old, new, i + Len(old))
         ELSE <<s[i]>> \o ReplaceFrom(s, old, new, i + 1)

RECURSIVE Interleave(_, _)
Interleave(s, new) ==
    IF s = <<>> THEN new ELSE new \o <<Head(s)>> \o Interleave(Tail(s), new)

\* s.replace(old, new): every non-overlapping occurrence, left to right
Replace(s, old, new) ==
    IF old = <<>> THEN Interleave(s, new) ELSE ReplaceFrom(s, old, new, 1)

Whitespace == {" ", "\t", "\n", "\r"}

Quotes == {"\"", "'"}

Slash == <<"/">>

Colon == <<":">>

SchemeSep == <<":", "/", "/">>

OpenBraces == <<"{", "{">>

CloseBraces == <<"}", "}">>

DockerIo == <<"d", "o", "c", "k", "e", "r", ".", "i", "o">>

LatestTag == <<"l", "a", "t", "e", "s", "t">>

(***************************************************************************)
(* ImageInfo and the reference parser.                                     *)
(***************************************************************************)
None == [kind |-> "None"]

IsNone(x) == x.kind = "None"

\* The dataclass ImageInfo.  origin is not a field of the dataclass: it is the
\* identity of the object, the scanner call that constructed it.
ImageInfo(name, tag, registry, repository, full_reference, chart_source) ==
    [kind |-> "ImageInfo", name |-> name, tag |-> tag, registry |-> registry,
     repository |-> repository, full_reference |-> full_reference,
     chart_source |-> chart_source, digest |-> "None", size |-> "None",
     origin |-> "None"]

\* The same with the tag taken after the first ':' of the last segment
\* (last_part.split(':')[1]).
ParseCleanedTagAtFirstColon(image_ref, chart_source) ==
    LET parts == Split(image_ref, Slash)
        hasRegistry == Contains(parts[1], <<".">>) \/ Contains(parts[1], Colon)
        registry == IF hasRegistry THEN parts[1] ELSE DockerIo
        repo_parts == IF hasRegistry THEN Tail(parts) ELSE parts
    IN  IF repo_parts = <<>> THEN None
        ELSE LET last_part == Last(repo_parts)
                 hasTag == Contains(last_part, Colon)
                 tag == IF hasTag THEN Split(last_part, Colon)[2] ELSE LatestTag
                 name == IF hasTag THEN Split(last_part, Colon)[1] ELSE last_part
                 repository == Join(Append(Front(repo_parts), name), Slash)
             IN  ImageInfo(name, tag, registry, repository, image_ref, chart_source)

\* The same with name = repository instead of name = repo_parts[-1].
ParseCleanedNameIsRepository(image_ref, chart_source) ==
    LET parts == Split(image_ref, Slash)
        hasRegistry == Contains(parts[1], <<".">>) \/ Contains(parts[1], Colon)
        registry == IF hasRegistry THEN parts[1] ELSE DockerIo
        repo_parts == IF hasRegistry THEN Tail(parts) ELSE parts
    IN  IF repo_parts = <<>> THEN None
        ELSE LET last_part == Last(repo_parts)
                 hasTag == Contains(last_part, Colon)
                 tag == IF hasTag THEN RSplit1(last_part, Colon)[2] ELSE LatestTag
                 name == IF hasTag THEN RSplit1(last_part, Colon)[1] ELSE last_part
                 repository == Join(Append(Front(repo_parts), name), Slash)
             IN  ImageInfo(repository, tag, registry, repository, image_ref,
                           chart_source)

\* lines 381-413, on the cleaned reference
ParseCleaned(image_ref, chart_source) ==
    LET parts == Split(image_ref, Slash)
        hasRegistry == Contains(parts[1], <<".">>) \/ Contains(parts[1], Colon)
        registry == IF hasRegistry THEN parts[1] ELSE DockerIo
        repo_parts == IF hasRegistry THEN Tail(parts) ELSE parts
    IN  IF repo_parts = <<>> THEN None
        ELSE LET last_part == Last(repo_parts)
                 hasTag == Contains(last_part, Colon)
                 tag == IF hasTag THEN RSplit1(last_part, Colon)[2] ELSE LatestTag
                 name == IF hasTag THEN RSplit1(last_part, Colon)[1] ELSE last_part
                 repository == Join(Append(Front(repo_parts), name), Slash)
             IN  ImageInfo(name, tag, registry, repository, image_ref, chart_source)

\* image_ref.strip().strip('"\'')
CleanUp(image_ref) == Strip(Strip(image_ref, Whitespace), Quotes)

\* The same with only the leading-delimiter test of line 371 and no test of the
\* cleaned reference for delimiters.
ParseImageReferenceLeadingDelimiterOnly(image_ref, chart_source) ==
    IF image_ref = <<>> \/ StartsWithAt(image_ref, 1, OpenBraces) THEN None
    ELSE LET cleaned == CleanUp(image_ref)
         IN  IF cleaned = <<>> THEN None ELSE ParseCleaned(cleaned, chart_source)

ParseImageReference(image_ref, chart_source) ==
    IF image_ref = <<>> \/ StartsWithAt(image_ref, 1, OpenBraces) THEN None
    ELSE LET cleaned == Strip(Strip(image_ref, Whitespace), Quotes)
         IN  IF \/ cleaned = <<>>
                \/ Contains(cleaned, OpenBraces)
                \/ Contains(cleaned, CloseBraces)
             THEN None
             ELSE ParseCleaned(cleaned, chart_source)

(***************************************************************************)
(* HelmPackImporter: the target reference and the relocation of one file.  *)
(***************************************************************************)
\* __init__: self.harbor_url = harbor_url.rstrip('/')
ImporterInit(harbor_url) == RStrip(harbor_url, {"/"})

\* self.harbor_url.split('://')[-1]
HarborHost(self_harbor_url) == Last(Split(self_harbor_url, SchemeSep))

\* The same, keeping the whole repository path instead of its final segment.
GenerateHarborReferenceKeepPath(self_harbor_url, original_ref, target_project) ==
    LET harbor_host == HarborHost(self_harbor_url)
        parts == Split(original_ref, Slash)
        hasTag == Contains(Last(parts), Colon)
        repo == IF hasTag THEN RSplit1(Last(parts), Colon)[1] ELSE Last(parts)
        tag == IF hasTag THEN RSplit1(Last(parts), Colon)[2] ELSE LatestTag
    IN  harbor_host \o Slash \o target_project \o Slash
            \o Join(Append(Front(parts), repo), Slash) \o Colon \o tag

GenerateHarborReference(self_harbor_url, original_ref, target_project) ==
    LET harbor_host == HarborHost(self_harbor_url)
        parts == Split(original_ref, Slash)
        hasTag == Contains(Last(parts), Colon)
        repo == IF hasTag THEN RSplit1(Last(parts), Colon)[1] ELSE Last(parts)
        tag == IF hasTag THEN RSplit1(Last(parts), Colon)[2] ELSE LatestTag
    IN  harbor_host \o Slash \o target_project \o Slash \o repo \o Colon \o tag

\* One pass of the loop "for original_ref, harbor_ref in image_mapping.items()"
\* over the pairs from index i on. written collects the harbor_ref of every pair
\* whose key was found.
RECURSIVE RelocateLoop(_, _, _, _)
RelocateLoop(content, mapping, i, written) ==
    IF i > Len(mapping)
    THEN [content |-> content, modified |-> written # {}, written |-> written]
    ELSE IF Contains(content, mapping[i][1])
         THEN RelocateLoop(Replace(content, mapping[i][1], mapping[i][2]),
                           mapping, i + 1, written \cup {mapping[i][2]})
         ELSE RelocateLoop(content, mapping, i + 1, written)

\* _relocate_images_in_file on the file's content; image_mapping is the dict in
\* its iteration (insertion) order, a sequence of <<key, value>> pairs.
RelocateImagesInFile(content, mapping) == RelocateLoop(content, mapping, 1, {})

\* image_mapping[key] = value on a dict kept as a list of pairs
DictSet(d, key, value) ==
    IF \E i \in 1..Len(d) : d[i][1] = key
    THEN [i \in 1..Len(d) |-> IF d[i][1] = key THEN <<key, value>> ELSE d[i]]
    ELSE Append(d, <<key, value>>)

RECURSIVE BuildMappingFrom(_, _, _, _, _)
BuildMappingFrom(refs, i, self_harbor_url, target_project, d) ==
    IF i > Len(refs) THEN d
    ELSE BuildMappingFrom(refs, i + 1, self_harbor_url, target_project,
             DictSet(d, refs[i],
                     GenerateHarborReference(self_harbor_url, refs[i], target_project)))

\* _import_chart: the dict image_mapping built from the manifest's image entries
BuildImageMapping(refs, self_harbor_url, target_project) ==
    BuildMappingFrom(refs, 1, self_harbor_url, target_project, <<>>)

\* image_filename in _pull_and_save_images and in _import_images
ImageFilename(full_reference) ==
    Replace(Replace(full_reference, Slash, <<"_">>), Colon, <<"_">>)
        \o <<".", "t", "a", "r">>

(***************************************************************************)
(* Values the inputs are drawn from.                                       *)
(***************************************************************************)
MaxKeys == 2

RefN == <<"n">>

RefRN == <<"r", "/", "n">>

RefRNT == <<"r", "/", "n", ":", "t">>

RefM == <<"m", "/", "n", ":", "t">>

RefHost == <<"h", ".", "i", "/", "r", "/", "n", ":", "t">>

RefPort == <<"h", ":", "5", "/", "n">>

RefExample == <<"m", "y", "o", "r", "g", "/", "a", "p", "p", ":", "2", ".", "1">>

ProjectP == <<"p">>

ProjectLibrary == <<"l", "i", "b", "r", "a", "r", "y">>

UrlExample ==
    <<"h", "t", "t", "p", "s", ":", "/", "/", "h", "a", "r", "b", "o", "r", ".",
      "e", "x", "a", "m", "p", "l", "e", ".", "c", "o", "m", "/">>

UrlPool ==
    { <<"h">>, <<"s", ":", "/", "/", "h">>, <<"s", ":", "/", "/", "h", "/">>,
      <<"s", ":", "/", "/", "h", ":", "5", "/", "/">>, UrlExample }

RefNT == <<"n", ":", "t">>

HarborRefPool == {RefN, RefNT, RefRN, RefRNT, RefM, RefHost, RefPort, RefExample}

KeyPool == {RefN, RefRN, RefRNT, RefM}

UrlH == <<"s", ":", "/", "/", "h">>

ContentPool ==
    { <<"x">>,
      RefRNT,
      RefRN \o <<" ">> \o RefRN,
      <<"i", ":", " ">> \o RefN \o <<" ">> \o RefRNT }

\* the dicts _import_chart builds for at most MaxKeys distinct references, in
\* every insertion order
MappingPool ==
    { BuildImageMapping(refs, ImporterInit(UrlH), ProjectP) :
        refs \in { r \in UNION { [1..k -> KeyPool] : k \in 0..MaxKeys } :
                     \A i, j \in 1..Len(r) : i # j => r[i] # r[j] } }

(***************************************************************************)
(* Idle values of the variables of the commands that do not run.           *)
(***************************************************************************)
FnIdle == fnIn = [op |-> "idle"] /\ fnOut = None /\ fnPc = "idle"

AnaIdle ==
    /\ chartSrc = <<>>
    /\ anaPc = "idle"
    /\ temp_dirs = <<>>
    /\ dirs = {}
    /\ anaResult = None

BunIdle ==
    /\ bunIn = None
    /\ bunPc = "idle"
    /\ bunIdx = 0
    /\ bunImages = <<>>
    /\ bundle = None
    /\ bunLog = <<>>
    /\ bunTmp = "none"
    /\ readBack = None

ImpIdle ==
    /\ impIn = None
    /\ impPc = "idle"
    /\ impIdx = 0
    /\ impTmp = "none"
    /\ files = <<>>
    /\ image_mapping = <<>>
    /\ pushed = {}
    /\ loaded = {}
    /\ impLog = <<>>
    /\ relocWritten = {}
    /\ chartPkg = None

(***************************************************************************)
(* HelmChartAnalyzer.  A chart source is a node of the dependency tree,    *)
(* named by its path from the root: <<>> is the chart given on the command *)
(* line, <<i>> the i-th archive of its charts/ directory, <<1, 1>> the     *)
(* archive in the charts/ directory of <<1>>.  chartSrc[node] is what the  *)
(* collaborators answer for it:                                            *)
(*   kind       "dir", "tgz", "url" or "other" (how _prepare_chart sees it)*)
(*   fetch      "ok" (one directory in the extracted workspace), "fails"   *)
(*              (tarfile / helm pull raises), "nodir" (no directory in the *)
(*              workspace) or "manydirs" (two directories in it)           *)
(*   chartYaml  "ok" or "missing", in the directory the code takes as the  *)
(*              chart root: with several, the one os.listdir returns first *)
(*   declares   Chart.yaml lists dependencies                              *)
(*   listing    os.listdir(charts/), the *.tgz files in the order returned *)
(*   scan       the strings each scanner meets as image values, in order   *)
(***************************************************************************)
NumDeps == 2

Root == <<>>

Grandchild == <<1, 1>>

Nodes == {Root, Grandchild} \cup { <<i>> : i \in 1..NumDeps }

TemplatedRef == <<"{", "{", "x", "}", "}">>

\* _parse_image_reference over the strings a scanner met, rejections dropped
RECURSIVE ParseAll(_, _, _)
ParseAll(raws, chart_name, origin) ==
    IF raws = <<>> THEN <<>>
    ELSE LET img == ParseImageReference(Head(raws), chart_name)
         IN  (IF IsNone(img) THEN <<>> ELSE << [img EXCEPT !.origin = origin] >>)
                 \o ParseAll(Tail(raws), chart_name, origin)

ParseChartAnnotations(scan, chart_name) ==
    ParseAll(scan.annotations, chart_name, "annotations")

\* the regular-expression matches of the template files, those with a template
\* delimiter skipped
ParseTemplatesManually(scan, chart_name) ==
    ParseAll(SelectSeq(scan.templates,
                 LAMBDA m : ~(Contains(m, OpenBraces) \/ Contains(m, CloseBraces))),
             chart_name, "manual")

\* The same with the textual scan of the templates run after every rendering,
\* failed or not.
ExtractImagesFromTemplatesAlwaysManual(scan, chart_name) ==
    (IF scan.renderOk THEN ParseAll(scan.rendered, chart_name, "rendered") ELSE <<>>)
        \o ParseTemplatesManually(scan, chart_name)

ExtractImagesFromTemplates(scan, chart_name) ==
    IF scan.renderOk
    THEN ParseAll(scan.rendered, chart_name, "rendered")
    ELSE ParseTemplatesManually(scan, chart_name)

ParseValuesForImages(scan, chart_name) ==
    ParseAll(scan.values, chart_name, "values")

\* The same with the first candidate of a reference kept (dict.setdefault).
RECURSIVE UniqueImagesKeepFirst(_, _)
UniqueImagesKeepFirst(images, d) ==
    IF images = <<>> THEN d
    ELSE UniqueImagesKeepFirst(Tail(images),
             IF \E i \in 1..Len(d) : d[i][1] = Head(images).full_reference
             THEN d
             ELSE Append(d, <<Head(images).full_reference, Head(images)>>))

\* unique_images[img.full_reference] = img, on a dict kept as a list of pairs
RECURSIVE UniqueImages(_, _)
UniqueImages(images, d) ==
    IF images = <<>> THEN d
    ELSE UniqueImages(Tail(images), DictSet(d, Head(images).full_reference, Head(images)))

\* list(unique_images.values())
DictValues(d) == [i \in 1..Len(d) |-> d[i][2]]

DiscoverImages(scan, chart_name) ==
    LET images == ParseChartAnnotations(scan, chart_name)
                      \o ExtractImagesFromTemplates(scan, chart_name)
                      \o ParseValuesForImages(scan, chart_name)
    IN  DictValues(UniqueImages(images, <<>>))

ChartInfo(name, path, dependencies, images) ==
    [kind |-> "ChartInfo", name |-> name, path |-> path,
     dependencies |-> dependencies, images |-> images]

\* The same with the combined list deduplicated by full_reference.
CombineImagesDeduplicated(images, dependencies) ==
    DictValues(UniqueImages(
        images \o Concat([i \in 1..Len(dependencies) |-> dependencies[i].images]),
        <<>>))

\* all_images = images.copy(); for dep in dependencies: all_images.extend(dep.images)
CombineImages(images, dependencies) ==
    images \o Concat([i \in 1..Len(dependencies) |-> dependencies[i].images])

TempDir(node) == <<"tmp", node>>

LocalDir(node) == <<"local", node>>

\* The same with the local directory recorded in temp_dirs like a workspace.
PrepareChartTrackingLocalDir(node, src) ==
    IF src.kind = "dir"
    THEN [ok |-> TRUE, path |-> LocalDir(node), temps |-> <<LocalDir(node)>>]
    ELSE IF src.kind = "other" THEN [ok |-> FALSE, path |-> None, temps |-> <<>>]
    ELSE IF src.fetch \in {"ok", "manydirs"}
         THEN [ok |-> TRUE, path |-> TempDir(node), temps |-> <<TempDir(node)>>]
         ELSE [ok |-> FALSE, path |-> None, temps |-> <<TempDir(node)>>]

\* _prepare_chart with _download_chart and _extract_chart_archive: the chart
\* root, or the exception; temps are the mkdtemp directories it appended to
\* temp_dirs on the way
PrepareChart(node, src) ==
    IF src.kind = "dir" THEN [ok |-> TRUE, path |-> LocalDir(node), temps |-> <<>>]
    ELSE IF src.kind = "other" THEN [ok |-> FALSE, path |-> None, temps |-> <<>>]
    ELSE IF src.fetch \in {"ok", "manydirs"}
         THEN [ok |-> TRUE, path |-> TempDir(node), temps |-> <<TempDir(node)>>]
         ELSE [ok |-> FALSE, path |-> None, temps |-> <<TempDir(node)>>]

Raised(temps) == [ok |-> FALSE, info |-> None, temps |-> temps]

\* The same without the try/except: the dependency's exception leaves the loop.
DependencyStepRaising(acc, r) ==
    IF r.ok
    THEN [acc EXCEPT !.dependencies = Append(@, r.info), !.temps = @ \o r.temps]
    ELSE [acc EXCEPT !.temps = @ \o r.temps, !.raised = TRUE]

\* The body of "for dep_file in os.listdir(charts_dir)": r is what
\* analyze_chart(dep_path) did.  raised says an exception leaves the loop.
DependencyStep(acc, r) ==
    IF r.ok
    THEN [acc EXCEPT !.dependencies = Append(@, r.info), !.temps = @ \o r.temps]
    ELSE [acc EXCEPT !.temps = @ \o r.temps]

RECURSIVE AnalyzeChart(_)
RECURSIVE DependencyLoop(_, _, _)

DependencyLoop(listing, i, acc) ==
    IF i > Len(listing) \/ acc.raised THEN acc
    ELSE DependencyLoop(listing, i + 1, DependencyStep(acc, AnalyzeChart(listing[i])))

\* _discover_dependencies.  A failing "helm dependency update" is logged only;
\* the listing is what charts/ holds after it.
DiscoverDependencies(node) ==
    LET none == [dependencies |-> <<>>, temps |-> <<>>, raised |-> FALSE]
    IN  IF ~chartSrc[node].declares THEN none
        ELSE DependencyLoop(chartSrc[node].listing, 1, none)

AnalyzeChart(node) ==
    LET src == chartSrc[node]
        prep == PrepareChart(node, src)
    IN  IF ~prep.ok \/ src.chartYaml = "missing" THEN Raised(prep.temps)
        ELSE LET deps == DiscoverDependencies(node)
                 temps == prep.temps \o deps.temps
             IN  IF deps.raised \/ src.scan.annotationsNone THEN Raised(temps)
                 ELSE [ok |-> TRUE,
                       info |-> ChartInfo(node, prep.path, deps.dependencies,
                                    CombineImages(DiscoverImages(src.scan, node),
                                                  deps.dependencies)),
                       temps |-> temps]

\* The same, removing only the directory tracked first.
RemoveFirstTempDir(onDisk, tracked) ==
    IF tracked = <<>> THEN onDisk ELSE onDisk \ {tracked[1]}

\* __exit__: what is left of the directories on disk
RemoveTempDirs(onDisk, tracked) ==
    onDisk \ { tracked[i] : i \in 1..Len(tracked) }

ScanA ==
    [annotations |-> <<RefRN>>, annotationsNone |-> FALSE, renderOk |-> TRUE,
     rendered |-> <<RefRNT>>, templates |-> <<>>, values |-> <<RefRN>>]

ScanB ==
    [annotations |-> <<>>, annotationsNone |-> FALSE, renderOk |-> FALSE,
     rendered |-> <<>>, templates |-> <<RefRN, TemplatedRef>>, values |-> <<RefM>>]

\* "annotations:" left empty in Chart.yaml: annotations.get raises
ScanRaises == [ScanA EXCEPT !.annotationsNone = TRUE]

Source(kind, fetch, chartYaml, scan) ==
    [kind |-> kind, fetch |-> fetch, chartYaml |-> chartYaml, scan |-> scan,
     declares |-> FALSE, listing |-> <<>>]

DepSources ==
    { Source("tgz", "ok", "ok", ScanA), Source("tgz", "ok", "ok", ScanB),
      Source("tgz", "fails", "ok", ScanA), Source("tgz", "ok", "missing", ScanA) }

GrandchildSources ==
    { Source("tgz", "ok", "ok", ScanA), Source("tgz", "nodir", "ok", ScanA),
      Source("tgz", "ok", "ok", ScanRaises) }

RootSources ==
    { Source(k, "ok", "ok", sc) : k \in {"dir", "tgz", "url"}, sc \in {ScanA, ScanB} }
    \cup
    { Source("other", "ok", "ok", ScanA), Source("tgz", "fails", "ok", ScanA),
      Source("url", "fails", "ok", ScanA), Source("url", "nodir", "ok", ScanA),
      Source("tgz", "manydirs", "ok", ScanA), Source("url", "manydirs", "ok", ScanB),
      Source("dir", "ok", "missing", ScanA), Source("dir", "ok", "ok", ScanRaises) }

\* the orders os.listdir may return the archives of charts/ in: as numbered,
\* and reversed
ListingOrders ==
    { [i \in 1..NumDeps |-> i], [i \in 1..NumDeps |-> NumDeps + 1 - i] }

ChartSources ==
    { [n \in Nodes |->
          IF n = Root
          THEN [r EXCEPT !.declares = dec, !.listing = [i \in 1..NumDeps |-> <<ord[i]>>]]
          ELSE IF n = Grandchild THEN g
          ELSE IF n = <<1>>
               THEN [d[1] EXCEPT !.declares = TRUE, !.listing = <<Grandchild>>]
               ELSE d[n[1]]] :
        r \in RootSources, dec \in BOOLEAN, ord \in ListingOrders,
        d \in [1..NumDeps -> DepSources], g \in GrandchildSources }

InitAnalyze ==
    /\ cmd = "analyze"
    /\ chartSrc \in ChartSources
    /\ anaPc = "start"
    /\ temp_dirs = <<>>
    /\ dirs = IF chartSrc[Root].kind = "dir" THEN {LocalDir(Root)} ELSE {}
    /\ anaResult = None
    /\ FnIdle /\ BunIdle /\ ImpIdle

\* with HelmChartAnalyzer() as analyzer:
AnalyzerEnter ==
    /\ cmd = "analyze" /\ anaPc = "start"
    /\ anaPc' = "entered"
    /\ UNCHANGED <<cmd, chartSrc, temp_dirs, dirs, anaResult, fnVars, bunVars, impVars>>

\* chart_info = analyzer.analyze_chart(chart): the whole recursive call
AnalyzeChartCall ==
    /\ cmd = "analyze" /\ anaPc = "entered"
    /\ LET r == AnalyzeChart(Root)
       IN  /\ anaResult' = [ok |-> r.ok, info |-> r.info]
           /\ temp_dirs' = temp_dirs \o r.temps
           /\ dirs' = dirs \cup { r.temps[i] : i \in 1..Len(r.temps) }
    /\ anaPc' = "analyzed"
    /\ UNCHANGED <<cmd, chartSrc, fnVars, bunVars, impVars>>

\* leaving the with block, after a return or with the exception in flight
AnalyzerExit ==
    /\ cmd = "analyze" /\ anaPc = "analyzed"
    /\ dirs' = RemoveTempDirs(dirs, temp_dirs)
    /\ anaPc' = "exited"
    /\ UNCHANGED <<cmd, chartSrc, temp_dirs, anaResult, fnVars, bunVars, impVars>>

NextAnalyze == AnalyzerEnter \/ AnalyzeChartCall \/ AnalyzerExit

SpecAnalyze == InitAnalyze /\ [][NextAnalyze]_vars

(***************************************************************************)
(* Helper calls on their own: the arguments are drawn, the call is made.   *)
(***************************************************************************)
FnInputs ==
    { [op |-> "relocate", content |-> c, mapping |-> m] :
        c \in ContentPool, m \in MappingPool }
    \cup
    { [op |-> "harbor", url |-> u, ref |-> r, project |-> p] :
        u \in UrlPool, r \in HarborRefPool, p \in {ProjectP, ProjectLibrary} }

MaxCands == 2

SeqsUpTo(S, n) == UNION { [1..k -> S] : k \in 0..n }

\* the same without a repeated element
DistinctSeqsUpTo(S, n) ==
    { q \in SeqsUpTo(S, n) : \A i, j \in 1..Len(q) : i # j => q[i] # q[j] }

\* what the scanners of one chart meet
ScanPool ==
    { [annotations |-> a, annotationsNone |-> FALSE, renderOk |-> t.renderOk,
       rendered |-> t.rendered, templates |-> t.templates, values |-> v] :
        a \in DistinctSeqsUpTo({RefRN, RefRNT}, MaxCands),
        v \in SeqsUpTo({RefRN, RefRNT}, MaxCands),
        t \in { [renderOk |-> TRUE, rendered |-> r, templates |-> <<>>] :
                    r \in DistinctSeqsUpTo({RefRN, RefRNT}, MaxCands) }
              \cup
              { [renderOk |-> FALSE, rendered |-> <<>>, templates |-> m] :
                    m \in DistinctSeqsUpTo({RefRN, RefRNT, TemplatedRef}, MaxCands) } }
    \cup
    \* a chart whose values.yaml or rendered manifest names a Docker Hub image
    \* with its tag, "image: n:t"
    { [annotations |-> <<>>, annotationsNone |-> FALSE, renderOk |-> TRUE,
       rendered |-> r, templates |-> <<>>, values |-> v] :
        r \in {<<>>, <<RefNT>>}, v \in {<<RefNT>>, <<RefRN, RefNT>>} }
    \cup
    \* a chart that renders and whose template files also match the patterns of
    \* the textual scan
    { [annotations |-> <<>>, annotationsNone |-> FALSE, renderOk |-> TRUE,
       rendered |-> <<RefRN>>, templates |-> m, values |-> v] :
        m \in {<<RefRNT>>, <<RefRN, RefM>>}, v \in {<<>>, <<RefRNT>>} }

DiscoverInputs == { [op |-> "discover", scan |-> sc] : sc \in ScanPool }

RefHostName == <<"h", ".", "i", "/", "n", ":", "t">>

RefHostPortTag == <<"h", ":", "5", "/", "r", "/", "n", ":", "t">>

RefTwoColons == <<"h", ".", "i", "/", "n", ":", "a", ":", "b">>

RefDeep == <<"a", "/", "b", "/", "c">>

RefNginx == <<"n", "g", "i", "n", "x">>

\* image strings as the scanners hand them to _parse_image_reference: plain
\* references, references padded with whitespace and quotes, strings with
\* template delimiters, single braces, and strings with nothing in them
ParsePool ==
    { RefN, RefNT, RefRN, RefRNT, RefM, RefDeep, RefNginx, RefExample,
      RefHost, RefPort, RefHostName, RefHostPortTag, RefTwoColons,
      <<" ", "\"">> \o RefHost \o <<"\"", "\n">>,
      <<"'">> \o RefRN \o <<"'">>,
      <<>>, <<" ">>, <<"h", ":", "5">>,
      <<"r", "/", "{", "n", "}">>,
      TemplatedRef,
      <<" ">> \o TemplatedRef,
      <<" ", "'">> \o TemplatedRef \o <<"'", " ">>,
      <<"r", "/">> \o OpenBraces \o <<"x">>,
      <<"n", ":">> \o CloseBraces,
      <<"h", ".", "i", "/">> \o TemplatedRef \o <<":", "t">> }

ParseInputs == { [op |-> "parse", ref |-> r] : r \in ParsePool }

InitFn ==
    /\ cmd = "fn"
    /\ fnIn \in FnInputs \cup DiscoverInputs \cup ParseInputs
    /\ fnOut = None
    /\ fnPc = "call"
    /\ AnaIdle /\ BunIdle /\ ImpIdle

CallRelocate ==
    /\ cmd = "fn" /\ fnPc = "call" /\ fnIn.op = "relocate"
    /\ fnOut' = RelocateImagesInFile(fnIn.content, fnIn.mapping)
    /\ fnPc' = "done"
    /\ UNCHANGED <<cmd, fnIn, anaVars, bunVars, impVars>>

CallHarborReference ==
    /\ cmd = "fn" /\ fnPc = "call" /\ fnIn.op = "harbor"
    /\ fnOut' = [ref |-> GenerateHarborReference(ImporterInit(fnIn.url), fnIn.ref,
                                                 fnIn.project)]
    /\ fnPc' = "done"
    /\ UNCHANGED <<cmd, fnIn, anaVars, bunVars, impVars>>

CallDiscoverImages ==
    /\ cmd = "fn" /\ fnPc = "call" /\ fnIn.op = "discover"
    /\ fnOut' = [images |-> DiscoverImages(fnIn.scan, Root)]
    /\ fnPc' = "done"
    /\ UNCHANGED <<cmd, fnIn, anaVars, bunVars, impVars>>

\* a raising call would leave fnOut = [raised |-> ...]; no path of
\* _parse_image_reference raises on a str
CallParseImageReference ==
    /\ cmd = "fn" /\ fnPc = "call" /\ fnIn.op = "parse"
    /\ fnOut' = [img |-> ParseImageReference(fnIn.ref, <<"c">>)]
    /\ fnPc' = "done"
    /\ UNCHANGED <<cmd, fnIn, anaVars, bunVars, impVars>>

NextFn ==
    \/ CallRelocate
    \/ CallHarborReference
    \/ CallDiscoverImages
    \/ CallParseImageReference

SpecFn == InitFn /\ [][NextFn]_vars

(***************************************************************************)
(* HelmPackBundler.create_bundle.  bunIn holds chart_info.images, the      *)
(* pull_images flag, whether docker_from_env() gave a client and whether   *)
(* copying the chart tree raises; what the daemon answers to each pull is  *)
(* chosen when the pull is made.                                           *)
(***************************************************************************)
MaxImages == 2

\* dataclasses.asdict(img): the fields of the dataclass
AsDict(img) ==
    [name |-> img.name, tag |-> img.tag, registry |-> img.registry,
     repository |-> img.repository, full_reference |-> img.full_reference,
     chart_source |-> img.chart_source, digest |-> img.digest, size |-> img.size]

\* The same with each entry's digest filled in when the document is built (the
\* image id asked of the daemon there).
BundleMetadataResolvingDigests(images) ==
    [kind |-> "HelmPackBundle", totalImages |-> Len(images),
     images |-> [i \in 1..Len(images) |->
                    [AsDict(images[i]) EXCEPT
                        !.digest = <<"id", images[i].full_reference>>]]]

\* the metadata document of create_bundle; the chart tree it also holds is left out
BundleMetadata(images) ==
    [kind |-> "HelmPackBundle", totalImages |-> Len(images),
     images |-> [i \in 1..Len(images) |-> AsDict(images[i])]]

\* The loop of _pull_and_save_images, stopped by the first failing pull.
AfterPullStopOnFailure(i, n, outcome) == IF outcome = "ok" THEN i + 1 ELSE n + 1

\* "for i, image in enumerate(images, 1)": the index after image i of n, whatever
\* the try block did (both except clauses only log)
AfterPull(i, n, outcome) == i + 1

PullOutcomes == {"ok", "pullFails", "saveFails"}

RefRNsT == <<"r", "/", "n", "/", "t">>

BundleImagePool ==
    { [ParseImageReference(r, Root) EXCEPT !.origin = "values"] :
        r \in {RefRN, RefRNT, RefRNsT} }

BundleInputs ==
    [images : SeqsUpTo(BundleImagePool, MaxImages), pull_images : BOOLEAN,
     docker : BOOLEAN, copyFails : BOOLEAN]

NoBundle == [kind |-> "None", manifest |-> None, chart |-> FALSE, images |-> <<>>]

InitBundle ==
    /\ cmd = "bundle"
    /\ bunIn \in BundleInputs
    /\ bunPc = "start"
    /\ bunIdx = 0
    /\ bunImages = bunIn.images
    /\ bundle = NoBundle
    /\ bunLog = <<>>
    /\ bunTmp = "none"
    /\ readBack = None
    /\ FnIdle /\ AnaIdle /\ ImpIdle

\* with tempfile.TemporaryDirectory(...): bundle_dir is made, metadata is built
\* from chart_info and dumped to bundle.yaml
WriteManifest ==
    /\ cmd = "bundle" /\ bunPc = "start"
    /\ bunTmp' = "exists"
    /\ bundle' = [NoBundle EXCEPT !.kind = "dir", !.manifest = BundleMetadata(bunImages)]
    /\ bunPc' = "copy"
    /\ UNCHANGED <<cmd, bunIn, bunIdx, bunImages, bunLog, readBack,
                   fnVars, anaVars, impVars>>

\* shutil.copytree(chart_info.path, chart_dir); an exception leaves the with
\* block, which removes the temporary directory
CopyChart ==
    /\ cmd = "bundle" /\ bunPc = "copy"
    /\ IF bunIn.copyFails
       THEN /\ bunPc' = "raised"
            /\ bunTmp' = "removed"
            /\ UNCHANGED bundle
       ELSE /\ bunPc' = "pull"
            /\ bundle' = [bundle EXCEPT !.chart = TRUE]
            /\ UNCHANGED bunTmp
    /\ UNCHANGED <<cmd, bunIn, bunIdx, bunImages, bunLog, readBack,
                   fnVars, anaVars, impVars>>

\* "if pull_images and chart_info.images" and the head of _pull_and_save_images
BeginPull ==
    /\ cmd = "bundle" /\ bunPc = "pull"
    /\ IF bunIn.pull_images /\ bunImages # <<>> /\ bunIn.docker
       THEN bunPc' = "pulling" /\ bunIdx' = 1
       ELSE bunPc' = "tar" /\ UNCHANGED bunIdx
    /\ UNCHANGED <<cmd, bunIn, bunImages, bundle, bunLog, bunTmp, readBack,
                   fnVars, anaVars, impVars>>

\* one turn of the loop of _pull_and_save_images.  A save that raises leaves the
\* file it had opened, incomplete.
PullOne ==
    /\ cmd = "bundle" /\ bunPc = "pulling"
    /\ \E outcome \in PullOutcomes :
          LET ref == bunImages[bunIdx].full_reference
              file == [name |-> ImageFilename(ref), bytes |-> ref,
                       complete |-> outcome = "ok"]
              kept == SelectSeq(bundle.images, LAMBDA f : f.name # file.name)
              next == AfterPull(bunIdx, Len(bunImages), outcome)
          IN  /\ bunLog' = Append(bunLog, <<"pull", ref, outcome>>)
              /\ bundle' = IF outcome = "pullFails" THEN bundle
                           ELSE [bundle EXCEPT !.images = Append(kept, file)]
              /\ bunImages' = IF outcome = "ok"
                              THEN [bunImages EXCEPT ![bunIdx].digest = <<"id", ref>>]
                              ELSE bunImages
              /\ bunIdx' = next
              /\ bunPc' = IF next > Len(bunImages) THEN "tar" ELSE "pulling"
    /\ UNCHANGED <<cmd, bunIn, bunTmp, readBack, fnVars, anaVars, impVars>>

\* tarfile.open(bundle_path, 'w:gz'): the bundle is written, the with block is
\* left and the temporary directory removed
CreateTarball ==
    /\ cmd = "bundle" /\ bunPc = "tar"
    /\ bundle' = [bundle EXCEPT !.kind = "tgz"]
    /\ bunTmp' = "removed"
    /\ bunPc' = "done"
    /\ UNCHANGED <<cmd, bunIn, bunIdx, bunImages, bunLog, readBack,
                   fnVars, anaVars, impVars>>

\* what _import_images finds for original_ref in the bundle's images/: the
\* content of the file named image_filename (f.read()), or nothing
ArchiveOf(images_dir, original_ref) ==
    LET found == SelectSeq(images_dir,
                           LAMBDA f : f.name = ImageFilename(original_ref))
    IN  IF found = <<>> THEN None
        ELSE [kind |-> "bytes", bytes |-> found[1].bytes,
              complete |-> found[1].complete]

\* import_bundle on that bundle: metadata = yaml.safe_load(f); metadata['images'],
\* and the archive _import_images opens for each of its entries
ReadManifest ==
    /\ cmd = "bundle" /\ bunPc = "done"
    /\ readBack' = [images |-> bundle.manifest.images,
                    archives |-> [i \in 1..Len(bundle.manifest.images) |->
                        ArchiveOf(bundle.images,
                                  bundle.manifest.images[i].full_reference)]]
    /\ bunPc' = "read"
    /\ UNCHANGED <<cmd, bunIn, bunIdx, bunImages, bundle, bunLog, bunTmp,
                   fnVars, anaVars, impVars>>

NextBundle ==
    WriteManifest \/ CopyChart \/ BeginPull \/ PullOne \/ CreateTarball \/ ReadManifest

SpecBundle == InitBundle /\ [][NextBundle]_vars

(***************************************************************************)
(* HelmPackImporter.import_bundle.  impIn holds harbor_url and             *)
(* target_project, whether docker_from_env() gave a client, and the        *)
(* archive: which of its parts exist (topDir, manifest, chartDir,          *)
(* imagesDir), the full_reference of each manifest image entry (refs), the *)
(* file names present in images/ (archives) and the chart's files (chart). *)
(* What the daemon and helm answer is chosen when they are called.         *)
(* A chart file is [dir, name, ext], dir its directory below the chart     *)
(* root.                                                                   *)
(***************************************************************************)
File(dir, name, ext) == [dir |-> dir, name |-> name, ext |-> ext]

ValuesYaml == File(<<>>, "values", "yaml")

ChartYaml == File(<<>>, "Chart", "yaml")

DeploymentYaml == File(<<"templates">>, "deployment", "yaml")

NotesTxt == File(<<"templates">>, "NOTES", "txt")

SubchartValuesYaml == File(<<"charts", "sub">>, "values", "yaml")

\* for values_file in ['values.yaml', 'values.yml']: os.path.join(chart_dir, values_file)
IsValuesFile(f) == f.dir = <<>> /\ f.name = "values" /\ f.ext \in {"yaml", "yml"}

\* os.walk(templates_dir): file.endswith(('.yaml', '.yml'))
IsTemplateFile(f) ==
    f.dir # <<>> /\ f.dir[1] = "templates" /\ f.ext \in {"yaml", "yml"}

\* the files _relocate_chart_images hands to _relocate_images_in_file
IsRelocated(f) == IsValuesFile(f) \/ IsTemplateFile(f)

\* _relocate_chart_images: the chart's files afterwards
RelocateChartImages(chart, mapping) ==
    [f \in DOMAIN chart |->
        IF IsRelocated(f) THEN RelocateImagesInFile(chart[f], mapping).content
        ELSE chart[f]]

\* the harbor_ref of every key found in a file handed to _relocate_images_in_file
WrittenByRelocation(chart, mapping) ==
    UNION { RelocateImagesInFile(chart[f], mapping).written :
              f \in { g \in DOMAIN chart : IsRelocated(g) } }

\* The login guard without its "return": a failed login is logged and the loop runs.
AfterLoginIgnoringFailure(loginOk, n) == IF n > 0 THEN "loop" ELSE "chart"

\* _import_images after the login attempt: the loop over n entries, or the return
AfterLogin(loginOk, n) == IF loginOk /\ n > 0 THEN "loop" ELSE "chart"

\* The Docker calls of one turn of the loop of _import_images, in order, for the
\* entry original_ref with target harbor_ref: everything up to the call that raises.
ImportCalls(original_ref, harbor_ref, outcome) ==
    LET load == <<"load", original_ref>>
        tag == <<"tag", harbor_ref>>
        push == <<"push", harbor_ref>>
        remove == <<"remove", original_ref>>
    IN  CASE outcome = "noArchive" -> <<>>
          [] outcome = "loadFails" -> <<load>>
          [] outcome = "loadEmpty" -> <<load>>
          [] outcome = "tagFails" -> <<load, tag>>
          [] outcome = "pushFails" -> <<load, tag, push>>
          [] outcome = "removeFails" -> <<load, tag, push, remove>>
          [] outcome = "ok" -> <<load, tag, push, remove>>

ImportOutcomes == {"loadFails", "loadEmpty", "tagFails", "pushFails", "removeFails", "ok"}

Shape(topDir, manifest, chartDir, imagesDir) ==
    [topDir |-> topDir, manifest |-> manifest, chartDir |-> chartDir,
     imagesDir |-> imagesDir]

UrlHSlash == <<"s", ":", "/", "/", "h", "/">>

PlainText == <<"x">>

\* the texts of a chart whose images are refs: an image line naming the first
\* of them, or all of them
TextPool(refs) ==
    IF refs = <<>> THEN {PlainText}
    ELSE { <<"i", ":", " ">> \o refs[1],
           <<"i", ":", " ">> \o Join(refs, <<" ">>) }

ChartFiles == {ValuesYaml, ChartYaml, DeploymentYaml, NotesTxt, SubchartValuesYaml}

\* the chart directories: one text with image references, in some of the files
ChartPool(refs) ==
    { [f \in ChartFiles |-> IF f \in bearing THEN text ELSE PlainText] :
        text \in TextPool(refs),
        bearing \in { {ValuesYaml, DeploymentYaml}, {DeploymentYaml, ChartYaml},
                      {DeploymentYaml, NotesTxt, SubchartValuesYaml} } }

ManifestRefPool == {RefN, RefRN, RefRNT}

\* images/ holds the archive of every entry but at most one
ArchivePool(refs) ==
    { { ImageFilename(refs[i]) : i \in (1..Len(refs)) \ {missing} } :
        missing \in 0..Len(refs) }

ImportInputs ==
    { [url |-> UrlHSlash, project |-> ProjectP, docker |-> TRUE, shape |-> sh,
       refs |-> <<RefRN>>, archives |-> {ImageFilename(RefRN)},
       chart |-> [f \in ChartFiles |-> PlainText]] :
        sh \in {Shape(FALSE, FALSE, FALSE, FALSE), Shape(TRUE, FALSE, TRUE, TRUE)} }
    \cup
    UNION { { [url |-> UrlHSlash, project |-> ProjectP, docker |-> d, shape |-> sh,
               refs |-> refs, archives |-> ar, chart |-> ch] :
                d \in BOOLEAN,
                sh \in {Shape(TRUE, TRUE, TRUE, TRUE), Shape(TRUE, TRUE, FALSE, TRUE),
                        Shape(TRUE, TRUE, TRUE, FALSE)},
                ar \in ArchivePool(refs),
                ch \in ChartPool(refs) } :
            refs \in SeqsUpTo(ManifestRefPool, MaxImages) }

InitImport ==
    /\ cmd = "import"
    /\ impIn \in ImportInputs
    /\ impPc = "start"
    /\ impIdx = 0
    /\ impTmp = "none"
    /\ files = <<>>
    /\ image_mapping = <<>>
    /\ pushed = {}
    /\ loaded = {}
    /\ impLog = <<>>
    /\ relocWritten = {}
    /\ chartPkg = None
    /\ FnIdle /\ AnaIdle /\ BunIdle

\* The same when a missing bundle.yaml is not noticed (the manifest read with a
\* default instead of open()).
AfterUnpackWithoutManifestCheck(topDir, manifest) ==
    IF topDir THEN "images" ELSE "raised"

\* "if not bundle_dirs: raise ValueError", and open(metadata_path) raising for a
\* bundle directory without bundle.yaml
AfterUnpack(topDir, manifest) ==
    IF topDir /\ manifest THEN "images" ELSE "raised"

\* with tempfile.TemporaryDirectory(...): extract, find the bundle directory,
\* load bundle.yaml.  An exception leaves the with block, which removes the
\* temporary directory.
ImportUnpack ==
    /\ cmd = "import" /\ impPc = "start"
    /\ impPc' = AfterUnpack(impIn.shape.topDir, impIn.shape.manifest)
    /\ IF impPc' = "images"
       THEN /\ impTmp' = "exists"
            /\ files' = IF impIn.shape.chartDir THEN impIn.chart ELSE <<>>
       ELSE /\ impTmp' = "removed"
            /\ UNCHANGED files
    /\ UNCHANGED <<cmd, impIn, impIdx, image_mapping, pushed, loaded, impLog,
                   relocWritten, chartPkg, fnVars, anaVars, bunVars>>

\* _import_images up to its loop: the two early returns and the login
ImportImagesBegin ==
    /\ cmd = "import" /\ impPc = "images"
    /\ IF ~impIn.docker \/ ~impIn.shape.imagesDir
       THEN impPc' = "chart" /\ UNCHANGED <<impIdx, impLog>>
       ELSE \E loginOk \in BOOLEAN :
               /\ impLog' = Append(impLog, <<"login", loginOk>>)
               /\ impPc' = AfterLogin(loginOk, Len(impIn.refs))
               /\ impIdx' = 1
    /\ UNCHANGED <<cmd, impIn, impTmp, files, image_mapping, pushed, loaded,
                   relocWritten, chartPkg, fnVars, anaVars, bunVars>>

\* one turn of "for image_info in images_info"
ImportOneImage ==
    /\ cmd = "import" /\ impPc = "loop"
    /\ LET original_ref == impIn.refs[impIdx]
           harbor_ref == GenerateHarborReference(ImporterInit(impIn.url), original_ref,
                                                 impIn.project)
           present == ImageFilename(original_ref) \in impIn.archives
       IN  \E outcome \in (IF present THEN ImportOutcomes ELSE {"noArchive"}) :
              /\ impLog' = impLog \o ImportCalls(original_ref, harbor_ref, outcome)
              /\ pushed' = IF outcome \in {"removeFails", "ok"}
                           THEN pushed \cup {harbor_ref} ELSE pushed
              /\ loaded' = IF outcome \in {"tagFails", "pushFails", "removeFails"}
                           THEN loaded \cup {original_ref} ELSE loaded
    /\ impIdx' = impIdx + 1
    /\ impPc' = IF impIdx + 1 > Len(impIn.refs) THEN "chart" ELSE "loop"
    /\ UNCHANGED <<cmd, impIn, impTmp, files, image_mapping, relocWritten, chartPkg,
                   fnVars, anaVars, bunVars>>

\* _import_chart up to the call of _push_chart_to_harbor
ImportChart ==
    /\ cmd = "import" /\ impPc = "chart"
    /\ IF ~impIn.shape.chartDir
       THEN /\ impPc' = "finish"
            /\ UNCHANGED <<files, image_mapping, relocWritten, impLog>>
       ELSE LET mapping == BuildImageMapping(impIn.refs, ImporterInit(impIn.url),
                                             impIn.project)
            IN  /\ image_mapping' = mapping
                /\ files' = RelocateChartImages(files, mapping)
                /\ relocWritten' = WrittenByRelocation(files, mapping)
                /\ impLog' = impLog \o << <<"build_mapping">>, <<"relocate">> >>
                /\ impPc' = "push"
    /\ UNCHANGED <<cmd, impIn, impIdx, impTmp, pushed, loaded, chartPkg,
                   fnVars, anaVars, bunVars>>

\* _push_chart_to_harbor: helm package, helm push; a failure of either is logged
PushChartToHarbor ==
    /\ cmd = "import" /\ impPc = "push"
    /\ \E outcome \in {"ok", "packageFails", "pushFails"} :
          /\ impLog' = impLog \o
                 (IF outcome = "packageFails"
                  THEN << <<"helm_package", FALSE>> >>
                  ELSE << <<"helm_package", TRUE>>, <<"helm_push", outcome = "ok">> >>)
          /\ chartPkg' = IF outcome = "ok" THEN [kind |-> "tgz", files |-> files]
                         ELSE chartPkg
    /\ impPc' = "finish"
    /\ UNCHANGED <<cmd, impIn, impIdx, impTmp, files, image_mapping, pushed, loaded,
                   relocWritten, fnVars, anaVars, bunVars>>

\* the with block is left, the temporary directory removed, success is logged
ImportFinish ==
    /\ cmd = "import" /\ impPc = "finish"
    /\ impTmp' = "removed"
    /\ impPc' = "done"
    /\ UNCHANGED <<cmd, impIn, impIdx, files, image_mapping, pushed, loaded, impLog,
                   relocWritten, chartPkg, fnVars, anaVars, bunVars>>

NextImport ==
    \/ ImportUnpack \/ ImportImagesBegin \/ ImportOneImage
    \/ ImportChart \/ PushChartToHarbor \/ ImportFinish

SpecImport == InitImport /\ [][NextImport]_vars

(***************************************************************************)
(* The three commands side by side: one of them runs.                      *)
(***************************************************************************)
InitAll == InitAnalyze \/ InitBundle \/ InitImport

NextAll == NextAnalyze \/ NextBundle \/ NextImport

SpecAll == InitAll /\ [][NextAll]_vars

(***************************************************************************)
(* Properties of the helper calls.                                         *)
(***************************************************************************)
\* The place of the last occurrence of pat in s, 0 when there is none.
LastIndexOf(s, pat) ==
    LET at == {i \in 1..Len(s) : StartsWithAt(s, i, pat)}
    IN  IF at = {} THEN 0 ELSE CHOOSE i \in at : \A j \in at : j <= i

AfterLastOcc(s, pat) ==
    IF LastIndexOf(s, pat) = 0 THEN s
    ELSE SubSeq(s, LastIndexOf(s, pat) + Len(pat), Len(s))

BeforeLastOcc(s, pat) ==
    IF LastIndexOf(s, pat) = 0 THEN s ELSE SubSeq(s, 1, LastIndexOf(s, pat) - 1)

WithoutTrailingSlash(url) ==
    LET n == CHOOSE k \in 0..Len(url) :
                 /\ k = 0 \/ url[k] # "/"
                 /\ \A j \in (k + 1)..Len(url) : url[j] = "/"
    IN  SubSeq(url, 1, n)

\* <target host>/<target project>/<final segment without tag>:<tag or latest>
ExpectedTarget(url, ref, project) ==
    LET host == AfterLastOcc(WithoutTrailingSlash(url), SchemeSep)
        segment == AfterLastOcc(ref, Slash)
        tagged == LastIndexOf(segment, Colon) # 0
        name == IF tagged THEN BeforeLastOcc(segment, Colon) ELSE segment
        tag == IF tagged THEN AfterLastOcc(segment, Colon) ELSE LatestTag
    IN  host \o Slash \o project \o Slash \o name \o Colon \o tag

\* The replacement the relocation of a file is meant to make: every occurrence
\* of a key in the ORIGINAL content (the longest key where several start at the
\* same place) gives way to that key's value, and every other character stays.
RECURSIVE ReplaceAllAtOnce(_, _, _)
ReplaceAllAtOnce(content, mapping, i) ==
    IF i > Len(content) THEN <<>>
    ELSE LET hits == {k \in 1..Len(mapping) :
                         mapping[k][1] # <<>> /\ StartsWithAt(content, i, mapping[k][1])}
         IN  IF hits = {} THEN <<content[i]>> \o ReplaceAllAtOnce(content, mapping, i + 1)
             ELSE LET k == CHOOSE h \in hits :
                               \A g \in hits : Len(mapping[g][1]) <= Len(mapping[h][1])
                  IN  mapping[k][2]
                          \o ReplaceAllAtOnce(content, mapping, i + Len(mapping[k][1]))

\* C3 (as claimed): for any mapping and any content, _relocate_images_in_file
\* yields the content with every verbatim occurrence of each key replaced by
\* exactly that key's value and nothing else changed, whatever the iteration
\* order of the mapping and also when a key is a substring of another key or of
\* a value.
C3_ExactReplacement ==
    (cmd = "fn" /\ fnPc = "done" /\ fnIn.op = "relocate")
        => fnOut.content = ReplaceAllAtOnce(fnIn.content, fnIn.mapping, 1)

\* C10: the target reference of an original reference is
\* <host>/<project>/<final path segment without tag>:<tag, or latest when absent>,
\* the host being the registry URL without scheme and trailing slash; for a
\* reference the parser accepts, the segment and the tag are the parsed name and tag.
C10_TargetReference ==
    (cmd = "fn" /\ fnPc = "done" /\ fnIn.op = "harbor")
        => /\ fnOut.ref = ExpectedTarget(fnIn.url, fnIn.ref, fnIn.project)
           /\ LET img == ParseImageReference(fnIn.ref, <<>>)
              IN  ~IsNone(img) =>
                      fnOut.ref = AfterLastOcc(WithoutTrailingSlash(fnIn.url), SchemeSep)
                                      \o Slash \o fnIn.project \o Slash
                                      \o img.name \o Colon \o img.tag

\* myorg/app:2.1 with project library on https://harbor.example.com/ has been
\* given harbor.example.com/library/app:2.1
C10_Witness ==
    /\ cmd = "fn" /\ fnPc = "done" /\ fnIn.op = "harbor"
    /\ fnIn.url = UrlExample /\ fnIn.ref = RefExample /\ fnIn.project = ProjectLibrary
    /\ fnOut.ref = <<"h", "a", "r", "b", "o", "r", ".", "e", "x", "a", "m", "p", "l",
                     "e", ".", "c", "o", "m", "/", "l", "i", "b", "r", "a", "r", "y",
                     "/", "a", "p", "p", ":", "2", ".", "1">>

(***************************************************************************)
(* Properties of the analysis.                                             *)
(***************************************************************************)
\* The candidates the scanners of a chart produce, each as the reference and
\* the scanner: a string a scanner met that the parser accepts.  The textual
\* scanner runs only when rendering failed, the rendered-manifest scanner only
\* when it succeeded.
Candidates(scan) ==
    LET from(raws, origin) ==
            { [full_reference |-> ParseImageReference(raws[i], <<>>).full_reference,
               origin |-> origin] :
                i \in { j \in 1..Len(raws) : ~IsNone(ParseImageReference(raws[j], <<>>)) } }
    IN  from(scan.annotations, "annotations")
            \cup (IF scan.renderOk THEN from(scan.rendered, "rendered")
                  ELSE from(SelectSeq(scan.templates,
                                LAMBDA m : ~Contains(m, OpenBraces)), "manual"))
            \cup from(scan.values, "values")

OwnRefs(scan) == { c.full_reference : c \in Candidates(scan) }

\* the place of a scanner in the order _discover_images calls them
ScannerRank(origin) ==
    CASE origin = "annotations" -> 1
      [] origin = "rendered" -> 2
      [] origin = "manual" -> 2
      [] origin = "values" -> 3

\* C4: per chart node _discover_images returns at most one entry per
\* full_reference, and where several scanners produced a candidate for one
\* full_reference the entry kept is that of the scanner called last.
C4_LastScannerWins ==
    (cmd = "fn" /\ fnPc = "done" /\ fnIn.op = "discover")
        => LET out == fnOut.images
           IN  /\ \A i, j \in 1..Len(out) :
                      i # j => out[i].full_reference # out[j].full_reference
               /\ \A i \in 1..Len(out) : \A c \in Candidates(fnIn.scan) :
                      c.full_reference = out[i].full_reference
                          => ScannerRank(c.origin) <= ScannerRank(out[i].origin)

\* the annotation scanner and the values scanner both produced r/n, and the one
\* entry returned for r/n is the values scanner's
C4_Witness ==
    /\ cmd = "fn" /\ fnPc = "done" /\ fnIn.op = "discover"
    /\ [full_reference |-> RefRN, origin |-> "annotations"] \in Candidates(fnIn.scan)
    /\ [full_reference |-> RefRN, origin |-> "values"] \in Candidates(fnIn.scan)
    /\ \E i \in 1..Len(fnOut.images) :
           fnOut.images[i].full_reference = RefRN /\ fnOut.images[i].origin = "values"

RECURSIVE SumLen(_)
SumLen(ss) == IF ss = <<>> THEN 0 ELSE Len(Head(ss)) + SumLen(Tail(ss))

CountRef(images, f) == Cardinality({ i \in 1..Len(images) : images[i].full_reference = f })

\* the nodes of a returned tree
RECURSIVE TreeNodes(_)
TreeNodes(ci) ==
    {ci.name} \cup UNION { TreeNodes(ci.dependencies[i]) : i \in 1..Len(ci.dependencies) }

RECURSIVE ImagesAppended(_)
ImagesAppended(ci) ==
    LET own == DiscoverImages(chartSrc[ci.name].scan, ci.name)
        depLists == [i \in 1..Len(ci.dependencies) |-> ci.dependencies[i].images]
    IN  /\ ci.images = own \o Concat(depLists)
        /\ Len(ci.images) = Len(own) + SumLen(depLists)
        /\ \A f \in { ci.images[i].full_reference : i \in 1..Len(ci.images) } :
               CountRef(ci.images, f)
                   = Cardinality({ n \in TreeNodes(ci) : f \in OwnRefs(chartSrc[n].scan) })
        /\ \A i \in 1..Len(ci.dependencies) : ImagesAppended(ci.dependencies[i])

\* C5: the image list of every node analyze_chart returns is the node's own
\* deduplicated list followed by each resolved dependency's complete list, in
\* dependency order, with no deduplication across nodes: a reference appears
\* once per node contributing it, and the length is the sum of the lengths.
C5_DependencyImagesAppended ==
    (cmd = "analyze" /\ anaPc \in {"analyzed", "exited"} /\ anaResult.ok)
        => ImagesAppended(anaResult.info)

\* the root and a dependency both reference r/n, and the root's list holds it twice
C5_Witness ==
    /\ cmd = "analyze" /\ anaPc = "analyzed" /\ anaResult.ok
    /\ Len(anaResult.info.dependencies) >= 1
    /\ RefRN \in OwnRefs(chartSrc[Root].scan)
    /\ RefRN \in OwnRefs(chartSrc[anaResult.info.dependencies[1].name].scan)
    /\ CountRef(anaResult.info.images, RefRN) >= 2

\* resolving and analysing the node itself succeeds, whatever its dependencies do
OwnOk(n) ==
    /\ chartSrc[n].kind \in {"dir", "tgz", "url"}
    /\ chartSrc[n].kind = "dir" \/ chartSrc[n].fetch \in {"ok", "manydirs"}
    /\ chartSrc[n].chartYaml = "ok"
    /\ ~chartSrc[n].scan.annotationsNone

RECURSIVE TreeMatches(_, _)
TreeMatches(ci, n) ==
    LET expected == IF chartSrc[n].declares
                    THEN SelectSeq(chartSrc[n].listing, OwnOk) ELSE <<>>
    IN  /\ ci.name = n
        /\ Len(ci.dependencies) = Len(expected)
        /\ \A i \in 1..Len(expected) :
               /\ TreeMatches(ci.dependencies[i], expected[i])
               /\ \A f \in OwnRefs(chartSrc[expected[i]].scan) :
                      /\ CountRef(ci.dependencies[i].images, f) >= 1
                      /\ CountRef(ci.images, f) >= 1

\* C9: a dependency archive that fails to resolve or analyse is left out of its
\* parent's dependencies and no exception leaves _discover_dependencies: every
\* sibling that resolves is in the tree with its images, and the analysis of
\* the parent and of every ancestor completes.
C9_BadDependencyExcluded ==
    (cmd = "analyze" /\ anaPc \in {"analyzed", "exited"} /\ OwnOk(Root))
        => /\ anaResult.ok
           /\ TreeMatches(anaResult.info, Root)
           /\ ~DiscoverDependencies(Root).raised

\* the first archive listed failed, the second resolved and is the root's only
\* dependency; below it or beside it the grandchild failed too
C9_Witness ==
    /\ cmd = "analyze" /\ anaPc = "analyzed" /\ anaResult.ok
    /\ chartSrc[Root].declares
    /\ ~OwnOk(chartSrc[Root].listing[1])
    /\ OwnOk(chartSrc[Root].listing[2])
    /\ Len(anaResult.info.dependencies) = 1
    /\ anaResult.info.dependencies[1].name = chartSrc[Root].listing[2]
    /\ Len(anaResult.info.dependencies[1].images) >= 1

\* the number of top-level directories os.listdir finds in the workspace of an
\* archive that was extracted or a chart that was fetched
TopLevelDirs(src) ==
    CASE src.fetch = "nodir" -> 0
      [] src.fetch = "ok" -> 1
      [] src.fetch = "manydirs" -> 2

\* C19 (as claimed): resolving a chart archive (a local .tgz or a fetched remote
\* chart) fails with an error when the extracted workspace holds zero top-level
\* directories or more than one; a chart root is returned only when there is
\* exactly one.
C19_OneTopLevelDirectory ==
    (cmd = "analyze" /\ anaPc \in {"analyzed", "exited"}
        /\ chartSrc[Root].kind \in {"tgz", "url"} /\ chartSrc[Root].fetch # "fails")
        => (anaResult.ok => TopLevelDirs(chartSrc[Root]) = 1)

(***************************************************************************)
(* Properties of packaging.                                                *)
(***************************************************************************)
FullReferences(images) == [i \in 1..Len(images) |-> images[i].full_reference]

PullsLogged == SelectSeq(bunLog, LAMBDA e : e[1] = "pull")

\* C6: the manifest's images are the full_reference strings of the root node's
\* image list, in order and in number (totalImages), and the importer reads the
\* same sequence back; with or without embedding and however many pulls fail; a
\* failed pull neither aborts packaging nor keeps later images from being pulled.
C6_ManifestListsEveryImage ==
    /\ (cmd = "bundle" /\ bunPc \in {"copy", "pull", "pulling", "tar", "done", "read"})
          => /\ FullReferences(bundle.manifest.images) = FullReferences(bunIn.images)
             /\ bundle.manifest.totalImages = Len(bunIn.images)
    /\ (cmd = "bundle" /\ bunPc = "read")
          => FullReferences(readBack.images) = FullReferences(bunIn.images)
    /\ (cmd = "bundle" /\ bunPc = "raised") => bunIn.copyFails
    /\ (cmd = "bundle" /\ bunPc \in {"tar", "done", "read"}
            /\ bunIn.pull_images /\ bunIn.docker)
          => [i \in 1..Len(PullsLogged) |-> PullsLogged[i][2]]
                 = FullReferences(bunIn.images)

\* two images, embedding requested, the first pull failed and the second was
\* made and succeeded; the manifest read back lists both
C6_Witness ==
    /\ cmd = "bundle" /\ bunPc = "read"
    /\ Len(bunIn.images) = 2
    /\ bunIn.images[1].full_reference # bunIn.images[2].full_reference
    /\ Len(bunLog) = 2
    /\ bunLog[1][3] = "pullFails"
    /\ bunLog[2][3] = "ok"
    /\ Len(readBack.images) = 2

\* C18 (as claimed): each embedded image has its own archive file: the file
\* name derived from a full_reference is the same for the packager and the
\* importer, and for every manifest entry with an archive file the bytes the
\* importer loads are the bytes the packager saved for that same
\* full_reference, also when the bundle holds several distinct references.
C18_OwnArchivePerImage ==
    (cmd = "bundle" /\ bunPc = "read")
        => \A i \in 1..Len(readBack.images) :
               LET ref == readBack.images[i].full_reference
                   saved == \E k \in 1..Len(bunLog) : bunLog[k] = <<"pull", ref, "ok">>
               IN  /\ saved => ~IsNone(readBack.archives[i])
                   /\ (~IsNone(readBack.archives[i]) /\ readBack.archives[i].complete)
                          => readBack.archives[i].bytes = ref

\* image i of the list was pulled and saved
PulledAndSaved(i) ==
    /\ i < bunIdx
    /\ Len(PullsLogged) >= i
    /\ PullsLogged[i][3] = "ok"

\* C20: in create_bundle the manifest bundle.yaml is written before any image
\* is pulled; after a pull that succeeded (the image pulled and saved) the
\* digest is recorded on the in-memory ImageInfo only, and in the persisted
\* manifest, as written and as read back from the bundle, the digest of every
\* image entry is absent, with or without embedding.
C20_DigestNeverPersisted ==
    cmd = "bundle"
        => /\ Len(bunLog) > 0 => ~IsNone(bundle.manifest)
           /\ \A i \in 1..Len(bunImages) :
                  IF PulledAndSaved(i)
                  THEN bunImages[i].digest = <<"id", bunImages[i].full_reference>>
                  ELSE bunImages[i].digest = "None"
           /\ ~IsNone(bundle.manifest)
                 => \A i \in 1..Len(bundle.manifest.images) :
                        bundle.manifest.images[i].digest = "None"
           /\ bunPc = "read"
                 => \A i \in 1..Len(readBack.images) :
                        readBack.images[i].digest = "None"

\* an image was pulled and saved, its digest is on the ImageInfo in memory, its
\* archive is in the bundle, and the manifest read back has no digest for it
C20_Witness ==
    /\ cmd = "bundle" /\ bunPc = "read"
    /\ Len(bunImages) >= 1
    /\ PulledAndSaved(1)
    /\ bunImages[1].digest # "None"
    /\ ~IsNone(readBack.archives[1])
    /\ readBack.images[1].digest = "None"

(***************************************************************************)
(* Properties of the import.                                               *)
(***************************************************************************)
LoggedCalls(kinds) == SelectSeq(impLog, LAMBDA e : e[1] \in kinds)

LoginFailed == \E i \in 1..Len(impLog) : impLog[i] = <<"login", FALSE>>

\* C1 (as claimed): after import_bundle every target reference that relocation
\* wrote into the chart's files is the reference of an image pushed to the
\* target registry during that import, on every path (login failure, no Docker,
\* missing archive file, a load/tag/push failure).
C1_RelocatedReferencesWerePushed ==
    (cmd = "import" /\ impPc = "done") => relocWritten \subseteq pushed

\* C2 (as claimed): no file of the chart that is packaged and pushed still
\* contains an original full_reference of the manifest, in its values files, its
\* templates, its metadata and its sub-charts under charts/.  A reference that
\* occurs inside its own target reference (the bare name n inside h/p/n:latest)
\* is not counted: it is found in every relocated text.
C2_NoOriginalReferenceLeft ==
    (cmd = "import" /\ ~IsNone(chartPkg))
        => \A f \in DOMAIN chartPkg.files : \A i \in 1..Len(impIn.refs) :
               LET ref == impIn.refs[i]
                   target == GenerateHarborReference(ImporterInit(impIn.url), ref,
                                                     impIn.project)
               IN  ~Contains(target, ref) => ~Contains(chartPkg.files[f], ref)

ChartStillImported ==
    /\ Len(LoggedCalls({"load", "tag", "push"})) = 0
    /\ Len(LoggedCalls({"build_mapping"})) = 1
    /\ Len(LoggedCalls({"relocate"})) = 1
    /\ Len(LoggedCalls({"helm_package"})) = 1
    /\ image_mapping = BuildImageMapping(impIn.refs, ImporterInit(impIn.url), impIn.project)

PhaseOf(call) ==
    CASE call[1] = "login" -> 2
      [] call[1] \in {"load", "tag", "push", "remove"} -> 3
      [] call[1] = "build_mapping" -> 4
      [] call[1] = "relocate" -> 5
      [] call[1] \in {"helm_package", "helm_push"} -> 6

\* the calls made so far came phase after phase; the images were handled after
\* a login that succeeded; helm ran after the relocation
PhasesInOrder ==
    /\ \A i, j \in 1..Len(impLog) : i < j => PhaseOf(impLog[i]) <= PhaseOf(impLog[j])
    /\ Len(LoggedCalls({"login"})) <= 1
    /\ Len(LoggedCalls({"load", "tag", "push", "remove"})) > 0
          => impLog[1] = <<"login", TRUE>>
    /\ Len(LoggedCalls({"helm_package", "helm_push"})) > 0
          => /\ Len(LoggedCalls({"build_mapping"})) = 1
             /\ Len(LoggedCalls({"relocate"})) = 1
             /\ Len(LoggedCalls({"helm_package"})) = 1
    /\ impPc \in {"start", "raised"} => impLog = <<>>
    /\ ~(impIn.shape.topDir /\ impIn.shape.manifest)
          => impLog = <<>> /\ impPc \in {"start", "raised"}
    /\ impPc \in {"images", "loop"}
          => Len(LoggedCalls({"build_mapping", "relocate", "helm_package"})) = 0

ImageLoopEnded ==
    /\ cmd = "import" /\ impPc \in {"chart", "push", "finish", "done"}
    /\ Len(impLog) > 0 /\ impLog[1] = <<"login", TRUE>>

\* the manifest entries whose archive file is in images/, in list order
EntriesWithArchive ==
    SelectSeq(impIn.refs, LAMBDA r : ImageFilename(r) \in impIn.archives)

\* C16 (as claimed): the manifest entries are processed one at a time in list
\* order; for every entry whose archive file is present the runtime actions
\* come in the order load, tag with the target reference, push, remove, so that
\* every image that was loaded (and so tagged) has had its local copy removed
\* when the import step ends; an entry without archive file is skipped, and a
\* failure on one entry does not keep the later entries from being processed.
C16_LoadTagPushRemove ==
    ImageLoopEnded
        => LET loads == LoggedCalls({"load"})
               target(r) == GenerateHarborReference(ImporterInit(impIn.url), r,
                                                    impIn.project)
           IN  /\ [i \in 1..Len(loads) |-> loads[i][2]] = EntriesWithArchive
               /\ \A i \in 1..Len(impLog) :
                      /\ impLog[i][1] = "tag"
                            => /\ impLog[i - 1][1] = "load"
                               /\ impLog[i][2] = target(impLog[i - 1][2])
                      /\ impLog[i][1] = "push"
                            => impLog[i - 1] = <<"tag", impLog[i][2]>>
                      /\ impLog[i][1] = "remove"
                            => /\ impLog[i - 1][1] = "push"
                               /\ impLog[i - 3] = <<"load", impLog[i][2]>>
               /\ \A i \in 1..Len(impLog) :
                      impLog[i][1] = "tag"
                          => /\ i + 2 <= Len(impLog)
                             /\ impLog[i + 2][1] = "remove"

\* C21 (as claimed): within one import two manifest entries with different
\* full_reference strings never get the same target reference: no image is
\* tagged and pushed under the target of another one, and no two distinct
\* original references are mapped to the same string for the chart.
C21_DistinctTargets ==
    cmd = "import"
        => /\ \A i, j \in 1..Len(image_mapping) :
                  image_mapping[i][1] # image_mapping[j][1]
                      => image_mapping[i][2] # image_mapping[j][2]
           /\ \A i, j \in 1..Len(impLog) :
                  (/\ impLog[i][1] = "tag" /\ impLog[j][1] = "tag"
                   /\ impLog[i - 1][2] # impLog[j - 1][2])
                      => impLog[i][2] # impLog[j][2]

(***************************************************************************)
(* Properties of the temporary directories.                                *)
(***************************************************************************)
\* C7: every ephemeral workspace directory created during chart resolution,
\* packaging or import is gone when the owning scope (the analyzer's with block,
\* create_bundle, import_bundle) has been left, by a return, after a logged
\* partial failure or with an exception propagating.
C7_WorkspacesRemoved ==
    /\ (cmd = "analyze" /\ anaPc = "exited")
          => /\ \A n \in Nodes : TempDir(n) \notin dirs
             /\ \A i \in 1..Len(temp_dirs) : temp_dirs[i] \notin dirs
    /\ (cmd = "bundle" /\ bunPc \in {"done", "read", "raised"}) => bunTmp = "removed"
    /\ (cmd = "import" /\ impPc \in {"done", "raised"}) => impTmp = "removed"

\* the analysis raised after it had created workspaces for the root archive and
\* for dependencies, and the with block has been left
C7_Witness ==
    /\ cmd = "analyze" /\ anaPc = "exited"
    /\ ~anaResult.ok
    /\ Len(temp_dirs) >= 3

HasPlaceholder(s) == Contains(s, OpenBraces) \/ Contains(s, CloseBraces)

\* host/path/name:tag: at least two segments, the first one a registry host,
\* the last one with a ':'
HasRegistryAndTag(s) ==
    LET parts == Split(s, Slash)
    IN  /\ s # <<>>
        /\ Len(parts) >= 2
        /\ Contains(parts[1], <<".">>) \/ Contains(parts[1], Colon)
        /\ Contains(Last(parts), Colon)

\* neither a registry host in the first segment nor a tag on the last one
HasNoRegistryNoTag(s) ==
    LET parts == Split(s, Slash)
    IN  /\ s # <<>>
        /\ ~Contains(parts[1], <<".">>) /\ ~Contains(parts[1], Colon)
        /\ ~Contains(Last(parts), Colon)

ParseDone == cmd = "fn" /\ fnPc = "done" /\ fnIn.op = "parse"

\* C11: for an input of the form host/path/name:tag with an explicit registry
\* host and an explicit tag (after the surrounding whitespace and quotes are
\* stripped, and free of template delimiters) the parser returns an ImageInfo
\* with registry + "/" + repository + ":" + tag equal to that string and
\* full_reference equal to that string.
C11_RegistryAndTagRoundTrip ==
    (ParseDone /\ HasRegistryAndTag(CleanUp(fnIn.ref))
               /\ ~HasPlaceholder(fnIn.ref))
        => /\ ~IsNone(fnOut.img)
           /\ fnOut.img.registry \o Slash \o fnOut.img.repository \o Colon
                  \o fnOut.img.tag = CleanUp(fnIn.ref)
           /\ fnOut.img.full_reference = CleanUp(fnIn.ref)

\* h.i/n:a:b, as it stands, has been parsed into h.i, n:a and b
C11_Witness ==
    /\ ParseDone /\ fnIn.ref = RefTwoColons /\ CleanUp(fnIn.ref) = fnIn.ref
    /\ ~IsNone(fnOut.img)
    /\ fnOut.img.registry = <<"h", ".", "i">>
    /\ fnOut.img.repository = <<"n", ":", "a">>
    /\ fnOut.img.tag = <<"b">>

\* C12: _parse_image_reference returns None, without raising, for every input
\* that contains "{{" or "}}" anywhere, whatever surrounds it, whitespace and
\* quote characters included.
C12_PlaceholderRejected ==
    (ParseDone /\ HasPlaceholder(fnIn.ref)) => fnOut = [img |-> None]

\* a delimiter that is neither at the start of the input nor at the start of
\* the cleaned input has been rejected
C12_Witness ==
    /\ ParseDone
    /\ HasPlaceholder(fnIn.ref)
    /\ ~StartsWithAt(fnIn.ref, 1, OpenBraces)
    /\ ~StartsWithAt(CleanUp(fnIn.ref), 1, OpenBraces)
    /\ fnOut = [img |-> None]

\* C13: for an input whose first segment contains neither "." nor ":" and whose
\* last segment carries no ":tag" (after the surrounding whitespace and quotes
\* are stripped, and free of template delimiters) the parser yields registry
\* docker.io, repository the whole string, name its last path segment and tag
\* latest.
C13_DefaultRegistryAndTag ==
    (ParseDone /\ HasNoRegistryNoTag(CleanUp(fnIn.ref))
               /\ ~HasPlaceholder(fnIn.ref))
        => /\ ~IsNone(fnOut.img)
           /\ fnOut.img.registry = DockerIo
           /\ fnOut.img.repository = CleanUp(fnIn.ref)
           /\ fnOut.img.name = Last(Split(CleanUp(fnIn.ref), Slash))
           /\ fnOut.img.tag = LatestTag

\* nginx has been parsed into docker.io / nginx / nginx / latest
C13_Witness ==
    /\ ParseDone /\ fnIn.ref = RefNginx
    /\ fnOut.img.registry = DockerIo
    /\ fnOut.img.repository = RefNginx
    /\ fnOut.img.name = RefNginx
    /\ fnOut.img.tag = LatestTag

\* the strings the annotation, rendered-manifest and values scanners met as
\* the value of an image key
ImageValuesMet(scan) ==
    LET elems(q) == { q[i] : i \in 1..Len(q) }
    IN  elems(scan.annotations)
            \cup (IF scan.renderOk THEN elems(scan.rendered) ELSE {})
            \cup elems(scan.values)

\* C14 (as claimed): every non-empty, placeholder-free string that the
\* annotation, rendered-manifest or values scanner finds as the value of an
\* image key is the full_reference of an entry of the node's image list,
\* single-segment references with a tag such as name:tag included.
C14_ImageListIsSuperset ==
    (cmd = "fn" /\ fnPc = "done" /\ fnIn.op = "discover")
        => \A v \in ImageValuesMet(fnIn.scan) :
               (CleanUp(v) # <<>> /\ ~HasPlaceholder(v))
                   => \E i \in 1..Len(fnOut.images) :
                          fnOut.images[i].full_reference = CleanUp(v)

(***************************************************************************)
(* The order of the scanners.                                              *)
(***************************************************************************)
\* the place of a scanner in the order [declared-metadata, rendered-manifest,
\* raw-configuration, textual-fallback]
FourScannerRank(origin) ==
    CASE origin = "annotations" -> 1
      [] origin = "rendered" -> 2
      [] origin = "values" -> 3
      [] origin = "manual" -> 4

\* out is what deduplication leaves of the candidates concatenated by rank:
\* one entry per candidate reference, in the order of the first candidate of
\* each, each entry the last candidate of its reference
DeduplicatedInOrder(out, scan, rank(_)) ==
    LET first(ref) == CHOOSE r \in 1..4 :
                          /\ \E c \in Candidates(scan) :
                                 c.full_reference = ref /\ rank(c.origin) = r
                          /\ \A c \in Candidates(scan) :
                                 c.full_reference = ref => r <= rank(c.origin)
    IN  /\ { out[i].full_reference : i \in 1..Len(out) } = OwnRefs(scan)
        /\ \A i, j \in 1..Len(out) :
               i < j => first(out[i].full_reference) <= first(out[j].full_reference)
        /\ \A i \in 1..Len(out) : \A c \in Candidates(scan) :
               c.full_reference = out[i].full_reference
                   => rank(c.origin) <= rank(out[i].origin)

\* the textual scan contributed nothing unless rendering failed
FallbackOnlyAfterFailedRendering(out, scan) ==
    scan.renderOk => \A i \in 1..Len(out) : out[i].origin # "manual"

\* C17 (as claimed): per chart node the candidates are concatenated before
\* deduplication in the order declared-metadata, rendered-manifest,
\* raw-configuration, textual-fallback; the textual-fallback scanner
\* contributes only when rendering failed, and then its candidates come after
\* the raw-configuration candidates.
C17_FourScannersInOrder ==
    (cmd = "fn" /\ fnPc = "done" /\ fnIn.op = "discover")
        => /\ DeduplicatedInOrder(fnOut.images, fnIn.scan, FourScannerRank)
           /\ FallbackOnlyAfterFailedRendering(fnOut.images, fnIn.scan)

\* C17 (amended): the order is declared-metadata, then rendered-manifest or,
\* only when rendering failed, textual-fallback in its place, then
\* raw-configuration: the candidates of the textual fallback come before the
\* raw-configuration candidates.
C17_FallbackInPlaceOfRendering ==
    (cmd = "fn" /\ fnPc = "done" /\ fnIn.op = "discover")
        => /\ DeduplicatedInOrder(fnOut.images, fnIn.scan, ScannerRank)
           /\ FallbackOnlyAfterFailedRendering(fnOut.images, fnIn.scan)

\* rendering failed, the textual scan found r/n and the values scan r/n:t, and
\* the list returned has r/n before r/n:t
C17_Witness ==
    /\ cmd = "fn" /\ fnPc = "done" /\ fnIn.op = "discover"
    /\ ~fnIn.scan.renderOk
    /\ fnIn.scan.annotations = <<>>
    /\ fnIn.scan.templates = <<RefRN>>
    /\ fnIn.scan.values = <<RefRNT>>
    /\ Len(fnOut.images) = 2
    /\ fnOut.images[1].full_reference = RefRN /\ fnOut.images[1].origin = "manual"
    /\ fnOut.images[2].full_reference = RefRNT /\ fnOut.images[2].origin = "values"

====
